---- MODULE Spec2Model ----
(***************************************************************************)
(* Model of RecipeResolver (src/recipe_resolver.rs): the dependency        *)
(* resolver (resolve_recipes' driver loop and the recursive                *)
(* resolve_recipe) followed by the expression validator                    *)
(* (resolve_recipes' second loop, resolve_variable, Function::resolve).    *)
(*                                                                         *)
(* The recursion of resolve_recipe is an explicit sequence of activation   *)
(* frames; one step of the model is one iteration of a loop of the code.   *)
(***************************************************************************)
EXTENDS Integers, Sequences, FiniteSets, TLC

\* ------------------------------------------------------------------ bounds

\* Inputs are all justfiles with at most MaxTokens tokens in total, a token
\* being one parameter, one dependency name, one assignment or one variable
\* or function reference.
MaxTokens == 3

\* Recipe names of the inputs; a dependency naming a recipe that is not part
\* of the input is an unknown dependency.
Names == {"a", "b", "c"}

\* Parameter lists a recipe may declare.
ParameterLists == {<<>>, <<"p">>, <<"p", "q">>}

\* Names the assignment table may define.
AssignmentNames == {"p"}

\* Builtin functions known to the function registry.
Builtins == {"arch"}

\* ------------------------------------------------------------------ data

NoDefault == [type |-> "None"]

Text == [type |-> "Text"]

Interpolation(e) == [type |-> "Interpolation", expression |-> e]

\* A token: its lexeme and its place in the source.
Token(lexeme, recipe, part, item, fragment, index) ==
  [lexeme |-> lexeme,
   at |-> [recipe |-> recipe, part |-> part, item |-> item,
           fragment |-> fragment, index |-> index]]

\* References an expression may contain, before they are given a place.
References ==
  {[type |-> "Call", name |-> "arch", argc |-> 0],
   [type |-> "Call", name |-> "baz", argc |-> 0],
   [type |-> "Variable", name |-> "x"],
   [type |-> "Variable", name |-> "p"]}

\* An expression is the sequence of the references of its tree, in traversal
\* order; each reference carries its token.
MakeExpression(refs, recipe, part, item, fragment) ==
  [i \in 1..Len(refs) |->
     IF refs[i].type = "Call"
       THEN [type |-> "Call",
             token |-> Token(refs[i].name, recipe, part, item, fragment, i),
             argc |-> refs[i].argc]
       ELSE [type |-> "Variable",
             token |-> Token(refs[i].name, recipe, part, item, fragment, i)]]

RECURSIVE SelectSeqBy(_, _)
SelectSeqBy(s, type) ==
  IF s = <<>> THEN <<>>
  ELSE IF Head(s).type = type
         THEN <<Head(s)>> \o SelectSeqBy(Tail(s), type)
         ELSE SelectSeqBy(Tail(s), type)

\* expression.functions(): the (function token, argc) pairs of the expression.
Functions(expression) == SelectSeqBy(expression, "Call")

\* expression.variables(): the variable tokens of the expression.
Variables(expression) ==
  LET vs == SelectSeqBy(expression, "Variable")
  IN  [i \in 1..Len(vs) |-> vs[i].token]

\* ------------------------------------------------------------------ inputs

RECURSIVE Budgeted(_, _, _)
\* The functions from Keys to sequences over Alphabet of total length <= n.
Budgeted(Keys, Alphabet, n) ==
  IF Keys = {} THEN {<<>>}
  ELSE LET k == CHOOSE k \in Keys : TRUE
       IN  UNION {
             UNION {
               {(k :> s) @@ rest : rest \in Budgeted(Keys \ {k}, Alphabet, n - len)}
               : s \in [1..len -> Alphabet]}
             : len \in 0..n}

RECURSIVE SumLen(_, _)
SumLen(f, Keys) ==
  IF Keys = {} THEN 0
  ELSE LET k == CHOOSE k \in Keys : TRUE
       IN  Len(f[k]) + SumLen(f, Keys \ {k})

\* The places of a recipe that hold an expression: the default of each
\* parameter and the interpolation of the body.
Slot(recipe, part, item, fragment) ==
  [recipe |-> recipe, part |-> part, item |-> item, fragment |-> fragment]

Slots(S, params) ==
  UNION {{Slot(r, "default", i, 0) : i \in 1..Len(params[r])} : r \in S}
  \cup {Slot(r, "body", 2, 2) : r \in S}

Expr(refs, slot) ==
  MakeExpression(refs[slot], slot.recipe, slot.part, slot.item, slot.fragment)

\* The unresolved recipe r of an input: its parameters ps, its dependency
\* names deps and the references refs of its expressions.  A parameter without
\* references has no default, a recipe without references has no body;
\* otherwise the body is the two lines "text" and "text {{e}} text".
MakeRecipe(r, ps, deps, refs) ==
  [name |-> r,
   parameters |->
     [i \in 1..Len(ps) |->
        [name |-> Token(ps[i], r, "parameter", i, 0, 0),
         default |->
           IF refs[Slot(r, "default", i, 0)] = <<>> THEN NoDefault
           ELSE [type |-> "Some",
                 expression |-> Expr(refs, Slot(r, "default", i, 0))]]],
   dependencies |->
     [i \in 1..Len(deps) |-> Token(deps[i], r, "dependency", 0, 0, i)],
   body |->
     IF refs[Slot(r, "body", 2, 2)] = <<>> THEN <<>>
     ELSE << <<Text>>,
             <<Text, Interpolation(Expr(refs, Slot(r, "body", 2, 2))), Text>> >>]

\* The arguments of resolve_recipes: the unresolved table and the assignments.
MakeInput(S, A, params, deps, refs) ==
  [recipes |-> [r \in S |-> MakeRecipe(r, params[r], deps[r], refs)],
   assignments |-> A]

\* The inputs: every table of at most MaxTokens tokens over the names above.
IsInput(in) ==
  \E S \in SUBSET Names :
    \E A \in {B \in SUBSET AssignmentNames : Cardinality(B) <= MaxTokens} :
      \E params \in {ps \in [S -> ParameterLists] :
                       Cardinality(A) + SumLen(ps, S) <= MaxTokens} :
        \E deps \in Budgeted(S, Names,
                             MaxTokens - Cardinality(A) - SumLen(params, S)) :
          \E refs \in Budgeted(Slots(S, params), References,
                               MaxTokens - Cardinality(A) - SumLen(params, S)
                                 - SumLen(deps, S)) :
            in = MakeInput(S, A, params, deps, refs)

\* ------------------------------------------------------------------ state

VARIABLES
  input,               \* the arguments resolve_recipes was called with
  unresolved_recipes,  \* RecipeResolver.unresolved_recipes: name -> recipe
  resolved_recipes,    \* RecipeResolver.resolved_recipes: name -> recipe
  assignments,         \* RecipeResolver.assignments: the names assigned
  stack,               \* the stack of the current driver iteration
  frames,              \* the activations of resolve_recipe, innermost last
  validated,           \* the entries values() has yielded so far
  result               \* what resolve_recipes returned, or Running

vars ==
  <<input, unresolved_recipes, resolved_recipes, assignments, stack, frames,
    validated, result>>

Running == [status |-> "Running"]

Ok(value) == [status |-> "Ok", value |-> value]

Err(error) == [status |-> "Err", error |-> error]

NoError == [kind |-> "NoError"]

\* empty(): the table without entries.
EmptyTable == <<>>

Init ==
  /\ IsInput(input)
  /\ unresolved_recipes = input.recipes
  /\ resolved_recipes = EmptyTable
  /\ assignments = input.assignments
  /\ stack = <<>>
  /\ frames = <<>>
  /\ validated = {}
  /\ result = Running

\* ------------------------------------------------------------------ Table

\* contains_key(name) / get(name) is Some.
ContainsKey(table, name) == name \in DOMAIN table

\* remove(name): the table without the entry of name.
Remove(table, name) == [n \in DOMAIN table \ {name} |-> table[n]]

\* insert(item): the table with item under its name.
Insert(table, item) ==
  [n \in DOMAIN table \cup {item.name} |->
     IF n = item.name THEN item ELSE table[n]]

\* pop(): the keys of the entries pop may remove and return.
PopChoices(table) == DOMAIN table

\* values(): the keys of the entries the iterator may yield next, visited
\* being those it has yielded.
ValuesChoices(table, visited) == DOMAIN table \ visited

\* ------------------------------------------------------------------ errors

\* token.error(kind): a compile error anchored at token.
CircularRecipeDependency(token, recipe, circle) ==
  [kind |-> "CircularRecipeDependency", token |-> token, recipe |-> recipe,
   circle |-> circle]

DependencyHasParameters(token, recipe, dependency) ==
  [kind |-> "DependencyHasParameters", token |-> token, recipe |-> recipe,
   dependency |-> dependency]

UnknownDependency(token, recipe, unknown) ==
  [kind |-> "UnknownDependency", token |-> token, recipe |-> recipe,
   unknown |-> unknown]

UndefinedVariable(token, variable) ==
  [kind |-> "UndefinedVariable", token |-> token, variable |-> variable]

UnknownFunction(token, function) ==
  [kind |-> "UnknownFunction", token |-> token, function |-> function]

\* ------------------------------------------------------------------ resolver

\* Errors that are not propagated: resolve_recipes goes on after them.
NeverReturned == FALSE

\* The ? operator and the loops' conditions: a step is taken only while
\* resolve_recipes has not returned.
Returned == result # Running

\* The activation of resolve_recipe at the top of the call stack.
Top == frames[Len(frames)]

\* The dependency token the innermost activation examines next.
Dependency == Top.recipe.dependencies[Top.next]

InDependencyLoop ==
  /\ ~Returned
  /\ frames # <<>>
  /\ Top.next <= Len(Top.recipe.dependencies)

Contains(s, name) == \E i \in 1..Len(s) : s[i] = name

RECURSIVE SkipWhileNot(_, _)
\* iter().skip_while(|n| n != name): the suffix from the first name on.
SkipWhileNot(s, name) ==
  IF s = <<>> THEN <<>>
  ELSE IF Head(s) # name THEN SkipWhileNot(Tail(s), name) ELSE s

\* The stack after stack.push(stack[0]).
PushFirst(s) == Append(s, s[1])

\* Circle without the closing element.
CircleOpen(s, name) == SkipWhileNot(s, name)

\* The circle reported for the dependency name found on the stack s.
Circle(s, name) == SkipWhileNot(PushFirst(s), name)

\* Dependency(resolved.clone()): a shared handle to a resolved recipe.  The
\* recipe behind an Rc is immutable, so the handle is the recipe's value.
Handle(resolved) == resolved

\* Attach with the handle inserted at the front of the list.
AttachFront(fs, handle) ==
  [fs EXCEPT ![Len(fs)].dependencies = <<handle>> \o @,
             ![Len(fs)].next = @ + 1]

\* dependencies.push(handle) in the innermost activation, which then goes on
\* to its next dependency.
Attach(fs, handle) ==
  [fs EXCEPT ![Len(fs)].dependencies = Append(@, handle),
             ![Len(fs)].next = @ + 1]

\* recipe.resolve(dependencies): the recipe with its dependencies resolved.
Resolve(recipe, dependencies) ==
  [recipe EXCEPT !.dependencies = dependencies]

\* The entry of resolve_recipe(stack, recipe) called from the activations fs:
\* the early return of a recipe that is already resolved (the caller, if any,
\* attaches the handle it gets), else the push onto the stack and a new
\* activation.
Enter(fs, s, recipe) ==
  IF ContainsKey(resolved_recipes, recipe.name)
    THEN /\ frames' = IF fs = <<>> THEN fs ELSE Attach(fs, Handle(resolved_recipes[recipe.name]))
         /\ stack' = s
    ELSE /\ frames' = Append(fs, [recipe |-> recipe, dependencies |-> <<>>,
                                  next |-> 1])
         /\ stack' = Append(s, recipe.name)

\* Pop looking at an entry of the unresolved table without removing it.
PopPeek(name) ==
  /\ ~Returned
  /\ frames = <<>>
  /\ name \in PopChoices(unresolved_recipes)
  /\ Enter(<<>>, <<>>, unresolved_recipes[name])
  /\ UNCHANGED <<input, unresolved_recipes, resolved_recipes, assignments,
                 validated, result>>

\* while let Some(unresolved) = unresolved_recipes.pop():
\*   resolve_recipe(&mut Vec::new(), unresolved)
Pop(name) ==
  /\ ~Returned
  /\ frames = <<>>
  /\ name \in PopChoices(unresolved_recipes)
  /\ unresolved_recipes' = Remove(unresolved_recipes, name)
  /\ Enter(<<>>, <<>>, unresolved_recipes[name])
  /\ UNCHANGED <<input, resolved_recipes, assignments, validated, result>>

\* A parameter test that never finds parameters.
HasParametersNever(recipe) == FALSE

\* !recipe.parameters.is_empty()
HasParameters(recipe) == recipe.parameters # <<>>

\* DependencyResolved attaching the resolved recipe whatever its parameters.
DependencyResolvedUnchecked ==
  /\ InDependencyLoop
  /\ ContainsKey(resolved_recipes, Dependency.lexeme)
  /\ frames' = Attach(frames, Handle(resolved_recipes[Dependency.lexeme]))
  /\ UNCHANGED <<input, unresolved_recipes, resolved_recipes, assignments,
                 stack, validated, result>>

\* The dependency is already resolved.
DependencyResolved ==
  /\ InDependencyLoop
  /\ ContainsKey(resolved_recipes, Dependency.lexeme)
  /\ IF HasParameters(resolved_recipes[Dependency.lexeme])
       THEN /\ result' = Err(DependencyHasParameters(
                               Dependency, Top.recipe.name, Dependency.lexeme))
            /\ UNCHANGED frames
       ELSE /\ frames' = Attach(frames, Handle(resolved_recipes[Dependency.lexeme]))
            /\ UNCHANGED result
  /\ UNCHANGED <<input, unresolved_recipes, resolved_recipes, assignments,
                 stack, validated>>

\* DependencyOnStack going on to the next dependency instead of failing.
DependencyOnStackSkipped ==
  /\ InDependencyLoop
  /\ ~ContainsKey(resolved_recipes, Dependency.lexeme)
  /\ Contains(stack, Dependency.lexeme)
  /\ frames' = [frames EXCEPT ![Len(frames)].next = @ + 1]
  /\ UNCHANGED <<input, unresolved_recipes, resolved_recipes, assignments,
                 stack, validated, result>>

\* The dependency is on the stack.
DependencyOnStack ==
  /\ InDependencyLoop
  /\ ~ContainsKey(resolved_recipes, Dependency.lexeme)
  /\ Contains(stack, Dependency.lexeme)
  /\ stack' = PushFirst(stack)
  /\ result' = Err(CircularRecipeDependency(
                     Dependency, Top.recipe.name,
                     Circle(stack, Dependency.lexeme)))
  /\ UNCHANGED <<input, unresolved_recipes, resolved_recipes, assignments,
                 frames, validated>>

\* DependencyUnresolved looking the dependency up without removing it.
DependencyUnresolvedKept ==
  /\ InDependencyLoop
  /\ ~ContainsKey(resolved_recipes, Dependency.lexeme)
  /\ ~Contains(stack, Dependency.lexeme)
  /\ ContainsKey(unresolved_recipes, Dependency.lexeme)
  /\ IF HasParameters(unresolved_recipes[Dependency.lexeme])
       THEN /\ result' = Err(DependencyHasParameters(
                               Dependency, Top.recipe.name, Dependency.lexeme))
            /\ UNCHANGED <<frames, stack>>
       ELSE /\ Enter(frames, stack, unresolved_recipes[Dependency.lexeme])
            /\ UNCHANGED result
  /\ UNCHANGED <<input, unresolved_recipes, resolved_recipes, assignments,
                 validated>>

\* The dependency is unresolved: it is removed and resolved recursively.
DependencyUnresolved ==
  /\ InDependencyLoop
  /\ ~ContainsKey(resolved_recipes, Dependency.lexeme)
  /\ ~Contains(stack, Dependency.lexeme)
  /\ ContainsKey(unresolved_recipes, Dependency.lexeme)
  /\ unresolved_recipes' = Remove(unresolved_recipes, Dependency.lexeme)
  /\ IF HasParameters(unresolved_recipes[Dependency.lexeme])
       THEN /\ result' = Err(DependencyHasParameters(
                               Dependency, Top.recipe.name, Dependency.lexeme))
            /\ UNCHANGED <<frames, stack>>
       ELSE /\ Enter(frames, stack, unresolved_recipes[Dependency.lexeme])
            /\ UNCHANGED result
  /\ UNCHANGED <<input, resolved_recipes, assignments, validated>>

\* DependencyUnknown naming the recipe at the bottom of the stack.
DependencyUnknownAtRoot ==
  /\ InDependencyLoop
  /\ ~ContainsKey(resolved_recipes, Dependency.lexeme)
  /\ ~Contains(stack, Dependency.lexeme)
  /\ ~ContainsKey(unresolved_recipes, Dependency.lexeme)
  /\ result' = Err(UnknownDependency(Dependency, stack[1], Dependency.lexeme))
  /\ UNCHANGED <<input, unresolved_recipes, resolved_recipes, assignments,
                 stack, frames, validated>>

\* The dependency is unknown.
DependencyUnknown ==
  /\ InDependencyLoop
  /\ ~ContainsKey(resolved_recipes, Dependency.lexeme)
  /\ ~Contains(stack, Dependency.lexeme)
  /\ ~ContainsKey(unresolved_recipes, Dependency.lexeme)
  /\ result' = Err(UnknownDependency(
                     Dependency, Top.recipe.name, Dependency.lexeme))
  /\ UNCHANGED <<input, unresolved_recipes, resolved_recipes, assignments,
                 stack, frames, validated>>

\* Return moving the recipe's dependencies out of the resolved table.
ReturnOwning ==
  /\ ~Returned
  /\ frames # <<>>
  /\ Top.next > Len(Top.recipe.dependencies)
  /\ resolved_recipes' =
       Insert([n \in DOMAIN resolved_recipes
                 \ {Top.dependencies[i].name : i \in 1..Len(Top.dependencies)}
                 |-> resolved_recipes[n]],
              Resolve(Top.recipe, Top.dependencies))
  /\ stack' = SubSeq(stack, 1, Len(stack) - 1)
  /\ frames' = IF Len(frames) = 1 THEN <<>>
               ELSE Attach(SubSeq(frames, 1, Len(frames) - 1),
                           Handle(Resolve(Top.recipe, Top.dependencies)))
  /\ UNCHANGED <<input, unresolved_recipes, assignments, validated, result>>

\* Return leaving the recipe's name on the stack.
ReturnNoPop ==
  /\ ~Returned
  /\ frames # <<>>
  /\ Top.next > Len(Top.recipe.dependencies)
  /\ resolved_recipes' =
       Insert(resolved_recipes, Resolve(Top.recipe, Top.dependencies))
  /\ stack' = stack
  /\ frames' = IF Len(frames) = 1 THEN <<>>
               ELSE Attach(SubSeq(frames, 1, Len(frames) - 1),
                           Handle(Resolve(Top.recipe, Top.dependencies)))
  /\ UNCHANGED <<input, unresolved_recipes, assignments, validated, result>>

\* Return inserting only a recipe resolved as a dependency.
ReturnDependencyOnly ==
  /\ ~Returned
  /\ frames # <<>>
  /\ Top.next > Len(Top.recipe.dependencies)
  /\ resolved_recipes' =
       IF Len(frames) = 1 THEN resolved_recipes
       ELSE Insert(resolved_recipes, Resolve(Top.recipe, Top.dependencies))
  /\ stack' = SubSeq(stack, 1, Len(stack) - 1)
  /\ frames' = IF Len(frames) = 1 THEN <<>>
               ELSE Attach(SubSeq(frames, 1, Len(frames) - 1),
                           Handle(Resolve(Top.recipe, Top.dependencies)))
  /\ UNCHANGED <<input, unresolved_recipes, assignments, validated, result>>

\* After the last dependency: the recipe is resolved and inserted, the stack
\* popped, and the handle returned to the caller, which attaches it.
Return ==
  /\ ~Returned
  /\ frames # <<>>
  /\ Top.next > Len(Top.recipe.dependencies)
  /\ resolved_recipes' =
       Insert(resolved_recipes, Resolve(Top.recipe, Top.dependencies))
  /\ stack' = SubSeq(stack, 1, Len(stack) - 1)
  /\ frames' = IF Len(frames) = 1 THEN <<>>
               ELSE Attach(SubSeq(frames, 1, Len(frames) - 1),
                           Handle(Resolve(Top.recipe, Top.dependencies)))
  /\ UNCHANGED <<input, unresolved_recipes, assignments, validated, result>>

\* ------------------------------------------------------------------ validator

\* Function::resolve(function, argc).
FunctionResolve(function, argc) ==
  IF function.lexeme \in Builtins THEN NoError
  ELSE UnknownFunction(function, function.lexeme)

\* resolve_variable(variable, parameters).
ResolveVariable(variable, parameters) ==
  LET name == variable.lexeme
      undefined ==
        /\ ~(name \in assignments)
        /\ ~(\E i \in 1..Len(parameters) : parameters[i].name.lexeme = name)
  IN  IF undefined THEN UndefinedVariable(variable, name) ELSE NoError

RECURSIVE FirstError(_)
\* The first error of a sequence of outcomes, as ? returns it.
FirstError(outcomes) ==
  IF outcomes = <<>> THEN NoError
  ELSE IF Head(outcomes) # NoError THEN Head(outcomes)
       ELSE FirstError(Tail(outcomes))

\* The two loops over an expression: its functions, then its variables, the
\* latter resolved with the parameters in scope.
ExpressionError(expression, parameters) ==
  LET fs == Functions(expression)
      vs == Variables(expression)
  IN  FirstError(
        [i \in 1..Len(fs) |-> FunctionResolve(fs[i].token, fs[i].argc)]
        \o [i \in 1..Len(vs) |-> ResolveVariable(vs[i], parameters)])

\* The recipe's parameters in scope in a default expression.
DefaultScopeParameters(recipe) == recipe.parameters

\* The parameters in scope in a parameter's default expression: &[].
DefaultScope(recipe) == <<>>

\* No parameter in scope in a body interpolation.
BodyScopeNone(recipe) == <<>>

\* The parameters in scope in a body interpolation: &recipe.parameters.
BodyScope(recipe) == recipe.parameters

\* for parameter in &recipe.parameters: if let Some(expression) = default
ParametersError(recipe) ==
  FirstError(
    [i \in 1..Len(recipe.parameters) |->
       IF recipe.parameters[i].default.type = "Some"
         THEN ExpressionError(recipe.parameters[i].default.expression,
                              DefaultScope(recipe))
         ELSE NoError])

\* for fragment in &line.fragments: if let Fragment::Interpolation
LineError(recipe, line) ==
  FirstError(
    [j \in 1..Len(line) |->
       IF line[j].type = "Interpolation"
         THEN ExpressionError(line[j].expression, BodyScope(recipe))
         ELSE NoError])

\* for line in &recipe.body
BodyError(recipe) ==
  FirstError([l \in 1..Len(recipe.body) |-> LineError(recipe, recipe.body[l])])

\* One iteration of for recipe in resolved_recipes.values().
RecipeError(recipe) ==
  FirstError(<<ParametersError(recipe), BodyError(recipe)>>)

\* Validation between two iterations of the driver loop.
ValidatingEarly ==
  /\ ~Returned
  /\ frames = <<>>

\* The driver loop is over: the unresolved table is empty.
Validating ==
  /\ ~Returned
  /\ frames = <<>>
  /\ PopChoices(unresolved_recipes) = {}

Validate(name) ==
  /\ Validating
  /\ name \in ValuesChoices(resolved_recipes, validated)
  /\ IF RecipeError(resolved_recipes[name]) # NoError
       THEN /\ result' = Err(RecipeError(resolved_recipes[name]))
            /\ UNCHANGED validated
       ELSE /\ validated' = validated \cup {name}
            /\ UNCHANGED result
  /\ UNCHANGED <<input, unresolved_recipes, resolved_recipes, assignments,
                 stack, frames>>

\* Ok(resolver.resolved_recipes)
Finish ==
  /\ Validating
  /\ ValuesChoices(resolved_recipes, validated) = {}
  /\ result' = Ok(resolved_recipes)
  /\ UNCHANGED <<input, unresolved_recipes, resolved_recipes, assignments,
                 stack, frames, validated>>

Next ==
  \/ \E name \in Names : Pop(name)
  \/ DependencyResolved
  \/ DependencyOnStack
  \/ DependencyUnresolved
  \/ DependencyUnknown
  \/ Return
  \/ \E name \in Names : Validate(name)
  \/ Finish

Spec == Init /\ [][Next]_vars

\* ------------------------------------------------------------------ the input, as given

InputNames == DOMAIN input.recipes

\* The dependency names recipe r declares, in declared order.
Declared(r) ==
  [i \in 1..Len(input.recipes[r].dependencies) |->
     input.recipes[r].dependencies[i].lexeme]

DependsOn(r, d) == \E i \in 1..Len(Declared(r)) : Declared(r)[i] = d

RECURSIVE ReachableIn(_, _)
\* The input recipes reachable from the set rs by k or fewer dependency edges.
ReachableIn(rs, k) ==
  IF k = 0 THEN rs
  ELSE ReachableIn(
         rs \cup {d \in InputNames : \E r \in rs : DependsOn(r, d)}, k - 1)

\* The input recipes reachable from r by one or more dependency edges.
Reachable(r) ==
  ReachableIn({d \in InputNames : DependsOn(r, d)}, Cardinality(InputNames))

Cyclic == \E r \in InputNames : r \in Reachable(r)

HasUnknownDependency ==
  \E r \in InputNames : \E i \in 1..Len(Declared(r)) :
    Declared(r)[i] \notin InputNames

HasParameterizedDependency ==
  \E r \in InputNames : \E i \in 1..Len(Declared(r)) :
    /\ Declared(r)[i] \in InputNames
    /\ input.recipes[Declared(r)[i]].parameters # <<>>

ParameterNames(r) ==
  {input.recipes[r].parameters[i].name.lexeme
     : i \in 1..Len(input.recipes[r].parameters)}

\* The references of the given type in the expressions of part ("default" or
\* "body") of input recipe r.
ReferencesOf(r, part, type) ==
  LET recipe == input.recipes[r]
      exprs ==
        IF part = "default"
          THEN {recipe.parameters[i].default.expression
                  : i \in {j \in 1..Len(recipe.parameters) :
                             recipe.parameters[j].default.type = "Some"}}
          ELSE UNION {{recipe.body[l][j].expression
                         : j \in {k \in 1..Len(recipe.body[l]) :
                                    recipe.body[l][k].type = "Interpolation"}}
                        : l \in 1..Len(recipe.body)}
  IN  UNION {{e[i] : i \in {j \in 1..Len(e) : e[j].type = type}} : e \in exprs}

\* Every function called is a builtin, every variable of a default is assigned
\* and every variable of a body is assigned or a parameter of its recipe.
AllDefined ==
  \A r \in InputNames :
    /\ \A part \in {"default", "body"} :
         \A c \in ReferencesOf(r, part, "Call") : c.token.lexeme \in Builtins
    /\ \A v \in ReferencesOf(r, "default", "Variable") :
         v.token.lexeme \in input.assignments
    /\ \A v \in ReferencesOf(r, "body", "Variable") :
         v.token.lexeme \in input.assignments \cup ParameterNames(r)

\* ------------------------------------------------------------------ claims

\* C1: for an acyclic input whose dependencies all name parameterless input
\* recipes and whose references are all defined, resolve_recipes returns Ok
\* whatever the pop order, the returned table has exactly the input's recipes,
\* and each resolved recipe's dependency list names the declared recipes in
\* the declared order, repeated names included.
C1_ResolvesWellFormedInput ==
  (/\ result # Running
   /\ ~Cyclic
   /\ ~HasUnknownDependency
   /\ ~HasParameterizedDependency
   /\ AllDefined)
  => /\ result.status = "Ok"
     /\ DOMAIN result.value = InputNames
     /\ Cardinality(DOMAIN result.value) = Cardinality(InputNames)
     /\ \A r \in InputNames :
          /\ Len(result.value[r].dependencies) = Len(Declared(r))
          /\ \A i \in 1..Len(Declared(r)) :
               result.value[r].dependencies[i].name = Declared(r)[i]

\* C1 witness: a successful run over three recipes, one of which declares two
\* different dependencies.
C1_Witness ==
  /\ result.status = "Ok"
  /\ Cardinality(InputNames) = 3
  /\ \E r \in InputNames :
       /\ Len(Declared(r)) = 2
       /\ Declared(r)[1] # Declared(r)[2]

\* The error resolve_recipes returned is a circular dependency.
IsCircular ==
  /\ result.status = "Err"
  /\ result.error.kind = "CircularRecipeDependency"

\* C2: the circle of every CircularRecipeDependency error starts and ends at
\* the repeated name, the lexeme of the dependency found on the stack.
C2_CircleStartsAndEndsAtRepeatedName ==
  IsCircular
  => /\ result.error.circle[1] = result.error.token.lexeme
     /\ result.error.circle[Len(result.error.circle)]
          = result.error.token.lexeme

\* C3: a recipe that depends on itself is reported with the circle
\* <<name, name>>, whether it was popped by the driver or reached as a
\* dependency of another recipe.
C3_SelfDependencyCircle ==
  (IsCircular /\ result.error.token.lexeme = result.error.recipe)
  => result.error.circle = <<result.error.recipe, result.error.recipe>>

\* The input "a: b\nb: a".
IsTwoRecipeCycle ==
  /\ InputNames = {"a", "b"}
  /\ Declared("a") = <<"b">>
  /\ Declared("b") = <<"a">>
  /\ input.recipes["a"].parameters = <<>>
  /\ input.recipes["b"].parameters = <<>>

\* The first dependency token of recipe r, with the given lexeme.
FirstDependencyToken(r, lexeme) ==
  [lexeme |-> lexeme,
   at |-> [recipe |-> r, part |-> "dependency", item |-> 0, fragment |-> 0,
           index |-> 1]]

ExaminesParameterizedDependency ==
  /\ result = Running
  /\ frames # <<>>
  /\ Top.next <= Len(Top.recipe.dependencies)
  /\ Dependency.lexeme \in InputNames
  /\ input.recipes[Dependency.lexeme].parameters # <<>>

DependencyHasParametersHere ==
  [status |-> "Err",
   error |-> [kind |-> "DependencyHasParameters",
              token |-> Dependency,
              recipe |-> Top.recipe.name,
              dependency |-> Dependency.lexeme]]

\* C5 as stated: whenever the resolver examines a dependency token of recipe
\* r whose target d has a parameter, the pass fails with
\* DependencyHasParameters{recipe: r, dependency: d}.
C5_ParameterizedDependencyAsStated ==
  [][ExaminesParameterizedDependency
       => result' = DependencyHasParametersHere]_vars

\* C5 amended: whenever the resolver examines a dependency token of recipe r
\* whose target d has a parameter and is not on the resolution stack, the pass
\* fails with DependencyHasParameters{recipe: r, dependency: d}, whether d was
\* resolved before or is pulled from the unresolved table; when d is on the
\* stack the pass fails with CircularRecipeDependency instead.
C5_ParameterizedDependency ==
  [][ExaminesParameterizedDependency
       => IF \E i \in 1..Len(stack) : stack[i] = Dependency.lexeme
            THEN /\ result'.status = "Err"
                 /\ result'.error.kind = "CircularRecipeDependency"
            ELSE result' = DependencyHasParametersHere]_vars

\* C5 witness: DependencyHasParameters was reported for a dependency that had
\* been resolved before.
C5_Witness ==
  /\ result.status = "Err"
  /\ result.error.kind = "DependencyHasParameters"
  /\ result.error.dependency \in DOMAIN resolved_recipes

\* The resolver is about to examine a dependency token.
ExaminesDependency ==
  /\ result = Running
  /\ frames # <<>>
  /\ Top.next <= Len(Top.recipe.dependencies)

UnknownDependencyHere ==
  [status |-> "Err",
   error |-> [kind |-> "UnknownDependency",
              token |-> Dependency,
              recipe |-> Top.recipe.name,
              unknown |-> Dependency.lexeme]]

\* The step reports an error of one of the given kinds.
Reports(kinds) ==
  /\ result = Running
  /\ result'.status = "Err"
  /\ result'.error.kind \in kinds

\* C6: UnknownDependency{recipe: r, unknown: d} is reported exactly when the
\* resolver examines a dependency token d of recipe r and d names no recipe of
\* the input; r is the recipe that declares the token.
C6_UnknownDependency ==
  [][/\ (ExaminesDependency /\ Dependency.lexeme \notin InputNames)
          => result' = UnknownDependencyHere
     /\ Reports({"UnknownDependency"})
          => /\ ExaminesDependency
             /\ result' = UnknownDependencyHere
             /\ Dependency.lexeme \notin InputNames
             /\ Dependency.at.recipe = Top.recipe.name
             /\ input.recipes[Top.recipe.name].dependencies[Top.next]
                  = Dependency]_vars

\* C6 witness: UnknownDependency was reported for a recipe other than the one
\* the driver popped.
C6_Witness ==
  /\ result.status = "Err"
  /\ result.error.kind = "UnknownDependency"
  /\ Len(stack) >= 2
  /\ result.error.recipe # stack[1]

StructuralKinds ==
  {"CircularRecipeDependency", "DependencyHasParameters", "UnknownDependency"}

ExpressionKinds == {"UndefinedVariable", "UnknownFunction"}

HasStructuralError ==
  Cyclic \/ HasUnknownDependency \/ HasParameterizedDependency

\* C7: a function or a variable is resolved only once the unresolved table is
\* empty and no recipe is on the stack, and an input with a structural error
\* is rejected with a structural error, never with UndefinedVariable or
\* UnknownFunction.
C7_ValidatorAfterResolver ==
  /\ [][(validated' # validated \/ Reports(ExpressionKinds))
          => /\ DOMAIN unresolved_recipes = {}
             /\ stack = <<>>
             /\ frames = <<>>
             /\ DOMAIN resolved_recipes = InputNames]_vars
  /\ []((HasStructuralError /\ result # Running)
          => /\ result.status = "Err"
             /\ result.error.kind \in StructuralKinds)

\* C7 witness: an input with a structural error and an undefined reference
\* was rejected.
C7_Witness ==
  /\ HasStructuralError
  /\ ~AllDefined
  /\ result.status = "Err"

\* C8: once resolve_recipes has returned nothing is removed, inserted or
\* validated and the result stays; an Ok result carries the complete table,
\* all of it validated, and an Err result carries one error and no table.
C8_FailFast ==
  /\ [][result # Running
          => UNCHANGED <<unresolved_recipes, resolved_recipes, validated,
                         result>>]_vars
  /\ [](result.status = "Ok"
          => /\ DOMAIN result = {"status", "value"}
             /\ result.value = resolved_recipes
             /\ DOMAIN result.value = InputNames
             /\ validated = InputNames)
  /\ [](result.status = "Err" => DOMAIN result = {"status", "error"})

\* C8 witness: an error was returned while some recipes were resolved and
\* others still unresolved.
C8_Witness ==
  /\ result.status = "Err"
  /\ DOMAIN unresolved_recipes # {}
  /\ DOMAIN resolved_recipes # {}

\* The error returned is UndefinedVariable at a variable of the given part.
IsUndefinedVariableIn(part) ==
  /\ result.status = "Err"
  /\ result.error.kind = "UndefinedVariable"
  /\ result.error.token.at.part = part

\* C9: a variable of a parameter's default expression is accepted if and only
\* if it is assigned; the parameters of the recipe are not in scope.
C9_DefaultScope ==
  /\ IsUndefinedVariableIn("default")
       => /\ result.error.token.lexeme \notin input.assignments
          /\ result.error.variable = result.error.token.lexeme
  /\ \A r \in validated :
       \A v \in ReferencesOf(r, "default", "Variable") :
         v.token.lexeme \in input.assignments
  /\ result.status = "Ok"
       => \A r \in InputNames :
            \A v \in ReferencesOf(r, "default", "Variable") :
              v.token.lexeme \in input.assignments

\* C9 witness: a default that refers to a parameter of its recipe was
\* rejected with UndefinedVariable.
C9_Witness ==
  /\ IsUndefinedVariableIn("default")
  /\ result.error.token.lexeme \in ParameterNames(result.error.token.at.recipe)

\* C10: a variable of a body interpolation of recipe r is accepted if and only
\* if it is assigned or a parameter of r; any other name is rejected with
\* UndefinedVariable at that variable's token.
C10_BodyScope ==
  /\ IsUndefinedVariableIn("body")
       => /\ result.error.token.lexeme \notin input.assignments
          /\ result.error.token.lexeme
               \notin ParameterNames(result.error.token.at.recipe)
          /\ result.error.variable = result.error.token.lexeme
          /\ \E v \in ReferencesOf(result.error.token.at.recipe, "body",
                                   "Variable") :
               v.token = result.error.token
  /\ \A r \in validated :
       \A v \in ReferencesOf(r, "body", "Variable") :
         v.token.lexeme \in input.assignments \cup ParameterNames(r)

\* C10 witness: a body variable that is a parameter of another recipe only
\* was rejected with UndefinedVariable.
C10_Witness ==
  /\ IsUndefinedVariableIn("body")
  /\ \E r \in InputNames : result.error.token.lexeme \in ParameterNames(r)

\* C11: no recipe name is in the unresolved table and in the resolved table
\* at once; a step only takes names out of the unresolved table and only puts
\* names of the input that are no longer there into the resolved table.
C11_TablesDisjoint ==
  /\ [](DOMAIN unresolved_recipes \cap DOMAIN resolved_recipes = {})
  /\ [][/\ DOMAIN unresolved_recipes' \subseteq DOMAIN unresolved_recipes
        /\ DOMAIN resolved_recipes \subseteq DOMAIN resolved_recipes'
        /\ DOMAIN resolved_recipes' \ DOMAIN resolved_recipes
             \subseteq InputNames \ DOMAIN unresolved_recipes]_vars

\* C11 witness: a recipe resolved as a dependency is in the resolved table
\* while another recipe is still unresolved.
C11_Witness ==
  /\ result = Running
  /\ DOMAIN unresolved_recipes # {}
  /\ \E r \in DOMAIN resolved_recipes, s \in InputNames : DependsOn(s, r)

\* The dependency resolver has terminated successfully: the driver loop is
\* over, or resolve_recipes has returned Ok.
ResolverSucceeded ==
  \/ /\ result = Running
     /\ frames = <<>>
     /\ DOMAIN unresolved_recipes = {}
  \/ result.status = "Ok"

\* C12: when the dependency resolver terminates successfully the unresolved
\* table is empty and the resolved table holds exactly the names of the input
\* recipes, those no other recipe depends on included.
C12_AllResolvedOnSuccess ==
  ResolverSucceeded
  => /\ DOMAIN unresolved_recipes = {}
     /\ DOMAIN resolved_recipes = InputNames

\* C12 witness: success on three recipes none of which is a dependency.
C12_Witness ==
  /\ result.status = "Ok"
  /\ Cardinality(InputNames) = 3
  /\ \A r \in InputNames : Declared(r) = <<>>

RECURSIVE ExpectedRecipe(_)
\* The resolved form of input recipe r, from the input alone: r with each
\* dependency name replaced by the resolved form of the recipe it names.
\* Defined for inputs without cycles and without unknown dependencies.
ExpectedRecipe(r) ==
  [input.recipes[r] EXCEPT
     !.dependencies = [i \in 1..Len(Declared(r)) |->
                         ExpectedRecipe(Declared(r)[i])]]

\* C13: the outcome does not depend on the order of the driver's pops:
\* whether resolve_recipes succeeds is decided by the input alone, and the
\* table it returns on success is the one the input determines.
C13_PopOrderIrrelevant ==
  result # Running
  => /\ (result.status = "Ok") <=> (~HasStructuralError /\ AllDefined)
     /\ (result.status = "Ok" /\ ~HasStructuralError)
          => result.value = [r \in InputNames |-> ExpectedRecipe(r)]

\* C13 witness: success on a chain of three recipes, which the driver may
\* enter at any of the three.
C13_Witness ==
  /\ result.status = "Ok"
  /\ \E r, s, t \in InputNames :
       /\ r # s /\ s # t /\ r # t
       /\ DependsOn(r, s)
       /\ DependsOn(s, t)

\* The recipes of the resolved table reachable from the set rs by k or fewer
\* dependencies of the resolved recipes.
RECURSIVE ResolvedReachableIn(_, _)
ResolvedReachableIn(rs, k) ==
  IF k = 0 THEN rs
  ELSE ResolvedReachableIn(
         rs \cup {d \in DOMAIN resolved_recipes :
                    \E r \in rs \cap DOMAIN resolved_recipes :
                      \E i \in 1..Len(resolved_recipes[r].dependencies) :
                        resolved_recipes[r].dependencies[i].name = d},
         k - 1)

ResolvedCyclic ==
  \E r \in DOMAIN resolved_recipes :
    \E i \in 1..Len(resolved_recipes[r].dependencies) :
      r \in ResolvedReachableIn({resolved_recipes[r].dependencies[i].name},
                                Cardinality(DOMAIN resolved_recipes))

\* C14: an input whose dependency graph has a cycle never yields a resolved
\* table, and the dependencies among the recipes of the resolved table never
\* form a cycle.
C14_CyclesRejected ==
  /\ Cyclic => result.status # "Ok"
  /\ ~ResolvedCyclic

\* C14 witness: a cycle through two or more recipes was rejected while a
\* recipe outside the cycle was resolved.
C14_Witness ==
  /\ IsCircular
  /\ Len(result.error.circle) >= 3
  /\ Cyclic
  /\ DOMAIN resolved_recipes # {}

RECURSIVE SumOver(_, _)
\* The sum of f[k] over the keys ks.
SumOver(f, ks) ==
  IF ks = {} THEN 0
  ELSE LET k == CHOOSE k \in ks : TRUE
       IN  f[k] + SumOver(f, ks \ {k})

\* The work left: two per dependency token not yet examined and two per
\* recipe not yet entered, one per activation, one per recipe not yet
\* validated, and one for the return.
WorkLeft ==
  SumOver([r \in DOMAIN unresolved_recipes |->
             2 * Len(unresolved_recipes[r].dependencies) + 2],
          DOMAIN unresolved_recipes)
  + SumOver([i \in 1..Len(frames) |->
               2 * (Len(frames[i].recipe.dependencies) + 1 - frames[i].next)
                 + 1],
            1..Len(frames))
  + Cardinality(InputNames \ validated)
  + (IF result = Running THEN 1 ELSE 0)

\* Some step is possible: a validation step, whose assignments are total, by
\* its guard, and every other step by ENABLED.
CanStep ==
  \/ ENABLED (\/ \E name \in Names : Pop(name)
              \/ DependencyResolved
              \/ DependencyOnStack
              \/ DependencyUnresolved
              \/ DependencyUnknown
              \/ Return
              \/ Finish)
  \/ \E name \in Names :
       /\ Validating
       /\ name \in ValuesChoices(resolved_recipes, validated)

\* C15: the pass terminates on every input, cyclic ones included, under every
\* pop order: while resolve_recipes has not returned it can take a step, and
\* every step decreases the work left, which is never negative, because a pop
\* or a recursive resolve removes a recipe from the unresolved table and
\* nothing is added back.
C15_Terminates ==
  /\ [](result = Running => CanStep)
  /\ [](WorkLeft >= 0)
  /\ [][WorkLeft' < WorkLeft]_vars

\* C15 witness: the pass has returned on a cyclic input of three recipes.
C15_Witness ==
  /\ Cyclic
  /\ result # Running
  /\ Cardinality(InputNames) = 3

\* C16: every dependency of every recipe of the resolved table is itself in
\* the resolved table, as the same recipe, and has no parameters; and it was
\* there before its dependent was inserted.
C16_DependenciesFirst ==
  /\ [](\A r \in DOMAIN resolved_recipes :
          \A i \in 1..Len(resolved_recipes[r].dependencies) :
            LET d == resolved_recipes[r].dependencies[i]
            IN  /\ d.name \in DOMAIN resolved_recipes
                /\ resolved_recipes[d.name] = d
                /\ d.parameters = <<>>)
  /\ [][\A r \in DOMAIN resolved_recipes' \ DOMAIN resolved_recipes :
          \A i \in 1..Len(resolved_recipes'[r].dependencies) :
            resolved_recipes'[r].dependencies[i].name
              \in DOMAIN resolved_recipes]_vars

\* C16 witness: the resolved table holds a recipe with a dependency while
\* the pass is still running.
C16_Witness ==
  /\ result = Running
  /\ \E r \in DOMAIN resolved_recipes :
       resolved_recipes[r].dependencies # <<>>

\* C17: the resolved table is write-once per name: no activation of
\* resolve_recipe, each of which ends with an insert, is for a name already in
\* the table; a step that changes the table adds one new name and leaves every
\* other entry, its dependency list included, as it was; and a successful run
\* has inserted every input recipe.
C17_WriteOnce ==
  /\ [](\A i \in 1..Len(frames) :
          frames[i].recipe.name \notin DOMAIN resolved_recipes)
  /\ [][resolved_recipes' # resolved_recipes
          => /\ \E r \in InputNames \ DOMAIN resolved_recipes :
                  DOMAIN resolved_recipes' = DOMAIN resolved_recipes \cup {r}
             /\ \A n \in DOMAIN resolved_recipes :
                  resolved_recipes'[n] = resolved_recipes[n]]_vars
  /\ [](result.status = "Ok" => DOMAIN resolved_recipes = InputNames)

\* C17 witness: success on an input in which two recipes depend on a third.
C17_Witness ==
  /\ result.status = "Ok"
  /\ \E r, s, t \in InputNames :
       /\ r # s /\ s # t /\ r # t
       /\ DependsOn(r, t)
       /\ DependsOn(s, t)

\* The names on the stack.
OnStack == {stack[i] : i \in 1..Len(stack)}

\* C18: before any error is detected every input recipe name is in exactly
\* one of the unresolved table, the stack and the resolved table; the stack
\* holds no name twice and names the recipes of the activations, each entry
\* after the first being a declared dependency of the entry before it; and
\* the stack is empty whenever the driver is about to pop.
C18_OnePlacePerName ==
  result.status # "Err"
  => /\ DOMAIN unresolved_recipes \cup OnStack \cup DOMAIN resolved_recipes
          = InputNames
     /\ DOMAIN unresolved_recipes \cap OnStack = {}
     /\ DOMAIN unresolved_recipes \cap DOMAIN resolved_recipes = {}
     /\ OnStack \cap DOMAIN resolved_recipes = {}
     /\ \A i, j \in 1..Len(stack) : stack[i] = stack[j] => i = j
     /\ Len(stack) = Len(frames)
     /\ \A i \in 1..Len(stack) : frames[i].recipe.name = stack[i]
     /\ \A i \in 2..Len(stack) : DependsOn(stack[i - 1], stack[i])
     /\ frames = <<>> => stack = <<>>

\* C18 witness: two recipes are on the stack while a third is resolved.
C18_Witness ==
  /\ result = Running
  /\ Len(stack) = 2
  /\ DOMAIN resolved_recipes # {}

\* C19: resolve_recipe is never entered for a recipe that is already
\* resolved: every step that takes a recipe out of the unresolved table
\* without failing starts an activation for it and pushes it on the stack, and
\* that recipe is not in the resolved table; a dependency that is already
\* resolved is attached from the resolved table without any activation.
C19_EarlyReturnNeverTaken ==
  [][/\ (DOMAIN unresolved_recipes' # DOMAIN unresolved_recipes
           /\ result' = Running)
          => /\ Len(frames') = Len(frames) + 1
             /\ Len(stack') = Len(stack) + 1
             /\ {frames'[Len(frames')].recipe.name}
                  = DOMAIN unresolved_recipes \ DOMAIN unresolved_recipes'
             /\ stack'[Len(stack')] = frames'[Len(frames')].recipe.name
             /\ frames'[Len(frames')].recipe.name
                  \notin DOMAIN resolved_recipes
     /\ (ExaminesDependency
           /\ Dependency.lexeme \in DOMAIN resolved_recipes
           /\ result' = Running)
          => /\ Len(frames') = Len(frames)
             /\ frames'[Len(frames)].next = Top.next + 1
             /\ frames'[Len(frames)].dependencies
                  = Append(Top.dependencies,
                           resolved_recipes[Dependency.lexeme])
             /\ UNCHANGED <<unresolved_recipes, resolved_recipes, stack>>]_vars

\* C19 witness: a recipe was resolved that names the same dependency twice,
\* the second time when it was already resolved.
C19_Witness ==
  \E r \in DOMAIN resolved_recipes :
    /\ Len(resolved_recipes[r].dependencies) = 2
    /\ resolved_recipes[r].dependencies[1] = resolved_recipes[r].dependencies[2]

====
